---------------------------- MODULE Spec2Model ----------------------------
(***************************************************************************)
(* Model of src/chapters.rs: the chapter document (Chapters > EditionEntry *)
(* > ChapterAtom > ChapterDisplay), its XML parse and serialization, the   *)
(* display rendering, and the extract / append / commit flow around the    *)
(* two external tools (mkvextract, mkvpropedit).                           *)
(*                                                                         *)
(* XML text is a sequence of tokens (declaration, character data, start    *)
(* tag, end tag), the events an XML reader delivers.  Option<T> is a       *)
(* sequence of length 0 (None) or 1 (Some).                                *)
(***************************************************************************)
EXTENDS Integers, Sequences, FiniteSets, TLC

\* ------------------------------------------------------------------ bounds
\* Most ChapterAtom elements in a container's chapter metadata.
MaxChapters == 2

\* ---------------------------------------------------------------- options
None == <<>>
Some(v) == <<v>>
IsSome(o) == Len(o) = 1
Unwrap(o) == o[1]

\* ----------------------------------------------------------- sample values
T0 == "00:00:00.000000000"
T1 == "00:05:00.000000000"
Timestamps == {T0, T1}
Titles == {"Intro", "Credits"}

\* ------------------------------------------------------------- XML tokens
Decl == [k |-> "decl", v |-> "1.0"]
Chars(s) == [k |-> "chars", v |-> s]
Open(n) == [k |-> "open", v |-> n]
Close(n) == [k |-> "close", v |-> n]
Whitespace == {" ", "\n", "\t", "\r"}

RECURSIVE Concat(_)
Concat(ss) == IF ss = <<>> THEN "" ELSE Head(ss) \o Concat(Tail(ss))

RECURSIVE Flatten(_)
Flatten(seqs) == IF seqs = <<>> THEN <<>> ELSE Head(seqs) \o Flatten(Tail(seqs))

Element(n, body) == <<Open(n)>> \o body \o <<Close(n)>>
TextElement(n, s) == Element(n, IF s = "" THEN <<>> ELSE <<Chars(s)>>)

\* ------------------------------------------------------ XML reader (xml-rs)
Fail == [ok |-> FALSE]

\* The content of an element from token i on, up to its end tag or the end
\* of the text: child elements in order, and the chunks of character data.
RECURSIVE ParseContent(_, _)
ParseContent(toks, i) ==
    IF i > Len(toks) THEN [ok |-> TRUE, kids |-> <<>>, text |-> <<>>, next |-> i]
    ELSE LET t == toks[i] IN
         CASE t.k = "close" -> [ok |-> TRUE, kids |-> <<>>, text |-> <<>>, next |-> i]
           [] t.k = "chars" ->
                LET r == ParseContent(toks, i + 1) IN
                IF r.ok THEN [r EXCEPT !.text = <<t.v>> \o @] ELSE Fail
           [] t.k = "open" ->
                LET in == ParseContent(toks, i + 1) IN
                IF ~in.ok \/ in.next > Len(toks) THEN Fail
                ELSE IF toks[in.next] # Close(t.v) THEN Fail
                ELSE LET r == ParseContent(toks, in.next + 1) IN
                     IF r.ok
                     THEN [r EXCEPT !.kids =
                              <<[n |-> t.v, kids |-> in.kids, text |-> in.text]>> \o @]
                     ELSE Fail
           [] OTHER -> Fail

\* A document: an optional declaration as the very first token, then exactly
\* one root element; outside the root only whitespace is allowed.
ParseDocument(toks) ==
    LET start == IF toks # <<>> /\ toks[1].k = "decl" THEN 2 ELSE 1
        r == ParseContent(toks, start)
    IN  IF ~r.ok THEN Fail
        ELSE IF r.next # Len(toks) + 1 THEN Fail
        ELSE IF Len(r.kids) # 1 THEN Fail
        ELSE IF \E j \in 1..Len(r.text) : r.text[j] \notin Whitespace THEN Fail
        ELSE [ok |-> TRUE, root |-> r.kids[1]]

\* ------------------------------------------- derive(Deserialize) structures
Field(el, name) == SelectSeq(el.kids, LAMBDA c : c.n = name)

de_String(el) ==
    IF el.kids # <<>> THEN Fail ELSE [ok |-> TRUE, val |-> Concat(el.text)]

de_ChapterDisplay(el) ==
    LET f == Field(el, "ChapterString") IN
    IF Len(f) # 1 THEN Fail
    ELSE LET s == de_String(f[1]) IN
         IF s.ok THEN [ok |-> TRUE, val |-> [title |-> s.val]] ELSE Fail

\* Variant: a missing ChapterTimeStart defaults to the empty string.
de_ChapterAtom_default_start(el) ==
    LET st == Field(el, "ChapterTimeStart")
        en == Field(el, "ChapterTimeEnd")
        di == Field(el, "ChapterDisplay")
    IN  IF Len(st) > 1 \/ Len(en) > 1 \/ Len(di) # 1 THEN Fail
        ELSE LET s == IF st = <<>> THEN [ok |-> TRUE, val |-> ""] ELSE de_String(st[1])
                 e == IF en = <<>> THEN [ok |-> TRUE, val |-> ""] ELSE de_String(en[1])
                 d == de_ChapterDisplay(di[1])
             IN  IF s.ok /\ e.ok /\ d.ok
                 THEN [ok |-> TRUE,
                       val |-> [start_time |-> s.val,
                                end_time |-> IF en = <<>> THEN None ELSE Some(e.val),
                                display |-> d.val]]
                 ELSE Fail

de_ChapterAtom(el) ==
    LET st == Field(el, "ChapterTimeStart")
        en == Field(el, "ChapterTimeEnd")
        di == Field(el, "ChapterDisplay")
    IN  IF Len(st) # 1 \/ Len(en) > 1 \/ Len(di) # 1 THEN Fail
        ELSE LET s == de_String(st[1])
                 e == IF en = <<>> THEN [ok |-> TRUE, val |-> ""] ELSE de_String(en[1])
                 d == de_ChapterDisplay(di[1])
             IN  IF s.ok /\ e.ok /\ d.ok
                 THEN [ok |-> TRUE,
                       val |-> [start_time |-> s.val,
                                end_time |-> IF en = <<>> THEN None ELSE Some(e.val),
                                display |-> d.val]]
                 ELSE Fail

\* Variant: the chapters field without its default, so that an edition
\* without ChapterAtom children is a missing field.
de_EditionEntry_no_default(el) ==
    LET f == Field(el, "ChapterAtom")
        as == [j \in 1..Len(f) |-> de_ChapterAtom(f[j])]
    IN  IF f = <<>> \/ \E j \in 1..Len(f) : ~as[j].ok THEN Fail
        ELSE [ok |-> TRUE, val |-> [chapters |-> [j \in 1..Len(f) |-> as[j].val]]]

de_EditionEntry(el) ==
    LET f == Field(el, "ChapterAtom")
        as == [j \in 1..Len(f) |-> de_ChapterAtom(f[j])]
    IN  IF \E j \in 1..Len(f) : ~as[j].ok THEN Fail
        ELSE [ok |-> TRUE, val |-> [chapters |-> [j \in 1..Len(f) |-> as[j].val]]]

\* Variant: no Chapters wrapper, the root element is the edition itself.
de_Chapters_root_is_edition(root) ==
    LET e == de_EditionEntry(root) IN
    IF e.ok THEN [ok |-> TRUE, val |-> [edition_entry |-> e.val]] ELSE Fail

\* The root element's name is not compared with the struct's name; its
\* children are the fields of Chapters.
de_Chapters(root) ==
    LET f == Field(root, "EditionEntry") IN
    IF Len(f) # 1 THEN Fail
    ELSE LET e == de_EditionEntry(f[1]) IN
         IF e.ok THEN [ok |-> TRUE, val |-> [edition_entry |-> e.val]] ELSE Fail

parse_chapter_xml(xml) ==
    LET d == ParseDocument(xml) IN
    IF d.ok THEN de_Chapters(d.root) ELSE Fail

\* --------------------------------------------- derive(Serialize) structures
ser_ChapterDisplay(d) == Element("ChapterDisplay", TextElement("ChapterString", d.title))

\* The fields in declaration order; an end_time of None writes no element.
ser_ChapterAtom(a) ==
    Element("ChapterAtom",
            TextElement("ChapterTimeStart", a.start_time)
            \o (IF IsSome(a.end_time)
                THEN TextElement("ChapterTimeEnd", Unwrap(a.end_time)) ELSE <<>>)
            \o ser_ChapterDisplay(a.display))

\* Variant: the sequence field written as a single element, its first.
ser_EditionEntry_first_only(e) ==
    Element("EditionEntry",
            IF e.chapters = <<>> THEN <<>> ELSE ser_ChapterAtom(e.chapters[1]))

ser_EditionEntry(e) ==
    Element("EditionEntry",
            Flatten([j \in 1..Len(e.chapters) |-> ser_ChapterAtom(e.chapters[j])]))

\* serde_xml_rs::to_string; whether the library writes a declaration of its
\* own before the root element depends on its version.
to_string(chapters, lib_decl) ==
    (IF lib_decl THEN <<Decl>> ELSE <<>>)
    \o Element("Chapters", ser_EditionEntry(chapters.edition_entry))

\* format!(r#"<?xml version="1.0"?>\n{}"#, inner): in a raw string \n is the
\* two characters backslash and n, not a line break.
chapters_to_xml(chapters, lib_decl) ==
    <<Decl, Chars("\\n")>> \o to_string(chapters, lib_decl)

\* ------------------------------------------------------------- rendering
Width == 12

RECURSIVE PadLeftAligned(_, _)
PadLeftAligned(s, w) == IF Len(s) >= w THEN s ELSE PadLeftAligned(s \o " ", w)

\* Variant: unwrap_or_default, an absent value renders as the empty string.
unwrap_or_default(o, d) == IF IsSome(o) THEN Unwrap(o) ELSE ""

unwrap_or_else(o, d) == IF IsSome(o) THEN Unwrap(o) ELSE d

chapter_line(chapter) ==
    "Start: " \o PadLeftAligned(chapter.start_time, Width)
    \o " End: " \o PadLeftAligned(unwrap_or_else(chapter.end_time, "???"), Width)
    \o " Title: " \o chapter.display.title \o "\n"

\* The output as the sequence of its lines, one writeln! per chapter.
to_os_string(chapters) ==
    LET cs == chapters.edition_entry.chapters IN
    [j \in 1..Len(cs) |-> chapter_line(cs[j])]

\* ---------------------------------------------------------------- append
\* Variant: insertion at the head.
push_front(vec, x) == <<x>> \o vec

push(vec, x) == Append(vec, x)

new_chapter(timestamp, title) ==
    [start_time |-> timestamp, end_time |-> None, display |-> [title |-> title]]

\* ------------------------------------------------ the container (mkv file)
\* What the container's chapter metadata looks like when the extractor
\* writes it out: the element layout and the ChapterAtom entries, each with
\* an optional ChapterTimeStart, an optional ChapterTimeEnd and a title.
Shapes == {"chapters_root", "mkvextract", "edition_root", "unclosed"}

InputAtoms ==
    [start : {None} \cup {Some(t) : t \in Timestamps},
     end : {None, Some(T1)},
     title : {"Intro"}]

RECURSIVE SeqsUpTo(_, _)
SeqsUpTo(S, n) ==
    IF n = 0 THEN {<<>>}
    ELSE LET shorter == SeqsUpTo(S, n - 1) IN
         shorter \cup {Append(q, x) : q \in {p \in shorter : Len(p) = n - 1}, x \in S}

MkvFiles == [shape : Shapes, atoms : SeqsUpTo(InputAtoms, MaxChapters)]

AtomXml(a) ==
    Element("ChapterAtom",
            (IF IsSome(a.start) THEN TextElement("ChapterTimeStart", Unwrap(a.start)) ELSE <<>>)
            \o (IF IsSome(a.end) THEN TextElement("ChapterTimeEnd", Unwrap(a.end)) ELSE <<>>)
            \o Element("ChapterDisplay", TextElement("ChapterString", a.title)))

AtomsXml(atoms) == Flatten([j \in 1..Len(atoms) |-> AtomXml(atoms[j])])

\* The text the extractor writes for a container.
\*   chapters_root: <Chapters><EditionEntry>atoms</EditionEntry></Chapters>
\*   mkvextract:    declaration, line break, and an EditionUID element
\*                  before the atoms
\*   edition_root:  <EditionEntry>atoms</EditionEntry>
\*   unclosed:      chapters_root with the root's end tag cut off
ContainerXml(mkv) ==
    CASE mkv.shape = "chapters_root" ->
           Element("Chapters", Element("EditionEntry", AtomsXml(mkv.atoms)))
      [] mkv.shape = "mkvextract" ->
           <<Decl, Chars("\n")>>
           \o Element("Chapters",
                      Element("EditionEntry",
                              TextElement("EditionUID", "1") \o AtomsXml(mkv.atoms)))
           \o <<Chars("\n")>>
      [] mkv.shape = "edition_root" ->
           Element("EditionEntry", AtomsXml(mkv.atoms))
      [] mkv.shape = "unclosed" ->
           <<Open("Chapters")>> \o Element("EditionEntry", AtomsXml(mkv.atoms))

\* ------------------------------------------------------------ results
Ok == "Ok"
Pending == "pending"
ErrExtract == "Failed to extract chapters from"
ErrNotFound == "Chapters not found in"
ErrIo == "io error"
ErrXml == "xml error"
ErrApply == "Failed to apply chapters with mkvpropedit"
PanicTemp == "panic: failed to create temp file"

\* What can happen around the extractor: the temp file cannot be created,
\* the tool cannot be launched, it exits non-zero, or it exits zero having
\* written no file, an empty file, or the container's chapter XML.
ExtractorOutcomes == {"no_temp", "no_launch", "nonzero", "missing", "empty", "written"}
EditorOutcomes == {"no_launch", "nonzero", "zero"}

\* The output file after the extractor ran (removed before the run).
TempFile(mkv, outcome) ==
    CASE outcome = "written" -> Some(ContainerXml(mkv))
      [] outcome = "empty" -> Some(<<>>)
      [] OTHER -> None

extract_chapters(mkv, outcome) ==
    IF outcome = "no_temp" THEN [result |-> PanicTemp, chapters |-> None]
    ELSE IF outcome = "no_launch" THEN [result |-> ErrIo, chapters |-> None]
    ELSE IF outcome = "nonzero" THEN [result |-> ErrExtract, chapters |-> None]
    ELSE LET file == TempFile(mkv, outcome) IN
         IF ~IsSome(file) THEN [result |-> ErrIo, chapters |-> None]
         ELSE IF Len(Unwrap(file)) = 0 THEN [result |-> ErrNotFound, chapters |-> None]
         ELSE LET parsed == parse_chapter_xml(Unwrap(file)) IN
              IF parsed.ok THEN [result |-> Ok, chapters |-> Some(parsed.val)]
              ELSE [result |-> ErrXml, chapters |-> None]

\* Variant: the editor's exit status is not looked at.
commit_result_unchecked(outcome) ==
    IF outcome = "no_launch" THEN ErrIo ELSE Ok

commit_result(outcome) ==
    IF outcome = "no_launch" THEN ErrIo
    ELSE IF outcome # "zero" THEN ErrApply
    ELSE Ok

\* ------------------------------------------------------------------ state
VARIABLES
    pc,              \* "idle", "extracted", "written", "done"
    op,              \* "none", "add", "read"
    mkv_file,        \* the container the call is about
    timestamp,       \* add_chapter_to_mkv's arguments
    title,
    extractor,       \* "not_run" or the extractor's outcome
    temp_file,       \* the extractor's output file (None: does not exist)
    chapters,        \* the document the call owns (None: no document)
    extracted,       \* the document as extract_chapters returned it
    xml_file,        \* the exchange file written for the editor
    editor,          \* "not_run" or the editor's outcome
    result,          \* Pending, Ok or the error
    extractor_runs,  \* launches attempted in this call
    editor_runs,
    display,         \* the output of to_os_string, once rendered
    reparsed,        \* parse_chapter_xml(chapters_to_xml(document)), once taken
    lib_decl         \* the library's to_string writes its own declaration

vars == <<pc, op, mkv_file, timestamp, title, extractor, temp_file, chapters,
          extracted, xml_file, editor, result, extractor_runs, editor_runs,
          display, reparsed, lib_decl>>

NoMkv == [shape |-> "chapters_root", atoms |-> <<>>]

Fresh ==
    /\ pc = "idle"
    /\ op = "none"
    /\ mkv_file = NoMkv
    /\ timestamp = ""
    /\ title = ""
    /\ extractor = "not_run"
    /\ temp_file = None
    /\ chapters = None
    /\ extracted = None
    /\ xml_file = None
    /\ editor = "not_run"
    /\ result = Pending
    /\ extractor_runs = 0
    /\ editor_runs = 0
    /\ display = None
    /\ reparsed = None

Init == Fresh /\ lib_decl \in BOOLEAN

\* The call of extract_chapters that opens both entry points: the tool's
\* run, its output file and the document returned.
Extract(mkv, outcome) ==
    LET r == extract_chapters(mkv, outcome) IN
    /\ mkv_file' = mkv
    /\ extractor' = outcome
    /\ extractor_runs' = IF outcome = "no_temp" THEN extractor_runs ELSE extractor_runs + 1
    /\ temp_file' = TempFile(mkv, outcome)
    /\ chapters' = r.chapters
    /\ extracted' = r.chapters

\* add_chapter_to_mkv, line 148.
add_chapter_to_mkv_extract ==
    /\ pc = "idle"
    /\ \E mkv \in MkvFiles, ts \in Timestamps, ti \in Titles, outcome \in ExtractorOutcomes :
          /\ Extract(mkv, outcome)
          /\ LET r == extract_chapters(mkv, outcome) IN
             /\ result' = IF r.result = Ok THEN Pending ELSE r.result
             /\ pc' = IF r.result = Ok THEN "extracted" ELSE "done"
          /\ op' = "add"
          /\ timestamp' = ts
          /\ title' = ti
    /\ UNCHANGED <<xml_file, editor, editor_runs, display, reparsed, lib_decl>>

\* add_chapter_to_mkv, lines 150-164: append, serialize, write the file.
add_chapter_to_mkv_append ==
    /\ pc = "extracted"
    /\ op = "add"
    /\ LET doc == Unwrap(chapters)
           appended == [doc EXCEPT !.edition_entry.chapters =
                           push(@, new_chapter(timestamp, title))]
       IN  /\ chapters' = Some(appended)
           /\ \E io_ok \in BOOLEAN :
                IF io_ok
                THEN /\ xml_file' = Some(chapters_to_xml(appended, lib_decl))
                     /\ pc' = "written"
                     /\ result' = result
                ELSE /\ xml_file' = None
                     /\ pc' = "done"
                     /\ result' = ErrIo
    /\ UNCHANGED <<op, mkv_file, timestamp, title, extractor, temp_file, extracted,
                   editor, extractor_runs, editor_runs, display, reparsed, lib_decl>>

\* add_chapter_to_mkv, lines 167-177: run the editor, check its status.
add_chapter_to_mkv_commit ==
    /\ pc = "written"
    /\ op = "add"
    /\ \E outcome \in EditorOutcomes :
          /\ editor' = outcome
          /\ result' = commit_result(outcome)
    /\ editor_runs' = editor_runs + 1
    /\ pc' = "done"
    /\ UNCHANGED <<op, mkv_file, timestamp, title, extractor, temp_file, chapters,
                   extracted, xml_file, extractor_runs, display, reparsed, lib_decl>>

\* read_chapters_from_mkv: extract_chapters and nothing else.
read_chapters_from_mkv ==
    /\ pc = "idle"
    /\ \E mkv \in MkvFiles, outcome \in ExtractorOutcomes :
          /\ Extract(mkv, outcome)
          /\ result' = extract_chapters(mkv, outcome).result
    /\ op' = "read"
    /\ pc' = "done"
    /\ UNCHANGED <<timestamp, title, xml_file, editor, editor_runs, display,
                   reparsed, lib_decl>>

\* Chapters::to_os_string on the document a read returned.
Render ==
    /\ pc = "done"
    /\ op = "read"
    /\ result = Ok
    /\ display = None
    /\ display' = Some(to_os_string(Unwrap(chapters)))
    /\ UNCHANGED <<pc, op, mkv_file, timestamp, title, extractor, temp_file, chapters,
                   extracted, xml_file, editor, result, extractor_runs, editor_runs,
                   reparsed, lib_decl>>

\* chapters_to_xml on the document a read returned, and parse_chapter_xml
\* on its text.
RoundTrip ==
    /\ pc = "done"
    /\ op = "read"
    /\ result = Ok
    /\ reparsed = None
    /\ reparsed' = Some(parse_chapter_xml(chapters_to_xml(Unwrap(chapters), lib_decl)))
    /\ UNCHANGED <<pc, op, mkv_file, timestamp, title, extractor, temp_file, chapters,
                   extracted, xml_file, editor, result, extractor_runs, editor_runs,
                   display, lib_decl>>

\* The call has returned; the next call starts from scratch.
Return ==
    /\ pc = "done"
    /\ pc' = "idle"
    /\ op' = "none"
    /\ mkv_file' = NoMkv
    /\ timestamp' = ""
    /\ title' = ""
    /\ extractor' = "not_run"
    /\ temp_file' = None
    /\ chapters' = None
    /\ extracted' = None
    /\ xml_file' = None
    /\ editor' = "not_run"
    /\ result' = Pending
    /\ extractor_runs' = 0
    /\ editor_runs' = 0
    /\ display' = None
    /\ reparsed' = None
    /\ UNCHANGED lib_decl

Next ==
    \/ add_chapter_to_mkv_extract
    \/ add_chapter_to_mkv_append
    \/ add_chapter_to_mkv_commit
    \/ read_chapters_from_mkv
    \/ Render
    \/ RoundTrip
    \/ Return

Spec == Init /\ [][Next]_vars

\* ================================================================ claims
ChapterList(doc) == doc.edition_entry.chapters

ReadDone == op = "read" /\ pc = "done"
AddDone == op = "add" /\ pc = "done"

\* The append step of add_chapter_to_mkv has run.
Appended == op = "add" /\ extracted # None /\ pc \in {"written", "done"}

\* --- C1 -----------------------------------------------------------------
\* C1: for a document parsed from XML of the modeled subset, parsing the
\* text chapters_to_xml gives for it succeeds and yields the same ordered
\* chapter sequence.
C1_RoundTrip ==
    (reparsed # None /\ mkv_file.shape = "chapters_root")
        => /\ Unwrap(reparsed).ok
           /\ ChapterList(Unwrap(reparsed).val) = ChapterList(Unwrap(chapters))

\* --- C2 -----------------------------------------------------------------
\* C2: after the append step the document is the extracted chapter sequence,
\* every chapter at its position with its fields, followed by one chapter
\* with the given timestamp as start_time, the given title and no end_time.
C2_AppendIsTailInsertion ==
    Appended =>
        LET S == ChapterList(Unwrap(extracted))
            C == ChapterList(Unwrap(chapters))
        IN  /\ Len(C) = Len(S) + 1
            /\ \A i \in 1..Len(S) : C[i] = S[i]
            /\ C[Len(C)].start_time = timestamp
            /\ C[Len(C)].display.title = title
            /\ C[Len(C)].end_time = None

\* Two chapters were extracted, the second starting at T1, and a chapter
\* starting at the earlier T0 was appended behind them.
C2_Witness ==
    /\ Appended
    /\ Len(ChapterList(Unwrap(extracted))) = 2
    /\ ChapterList(Unwrap(extracted))[2].start_time = T1
    /\ timestamp = T0
    /\ Len(ChapterList(Unwrap(chapters))) = 3
    /\ ChapterList(Unwrap(chapters))[3].start_time = T0

\* --- C3 -----------------------------------------------------------------
\* The example input of the spec, token by token.
SpecExample ==
    <<Open("EditionEntry"),
        Open("ChapterAtom"),
          Open("ChapterTimeStart"), Chars("00:00:00.000000000"), Close("ChapterTimeStart"),
          Open("ChapterDisplay"),
            Open("ChapterString"), Chars("Intro"), Close("ChapterString"),
          Close("ChapterDisplay"),
        Close("ChapterAtom"),
      Close("EditionEntry")>>

IntroDocument ==
    [edition_entry |->
        [chapters |-> <<[start_time |-> "00:00:00.000000000",
                         end_time |-> None,
                         display |-> [title |-> "Intro"]]>>]]

\* C3 as stated: the example input, whose root element is EditionEntry with
\* the ChapterAtom directly under it, parses to one chapter with start
\* 00:00:00.000000000, no end and title Intro.
C3_EditionRootExampleParses ==
    (ReadDone /\ temp_file = Some(SpecExample))
        => /\ result = Ok
           /\ chapters = Some(IntroDocument)

\* C3 amended: the example parses to that one chapter when it is the single
\* EditionEntry child of a root element (Chapters); with EditionEntry as the
\* root itself the parse fails.
C3_WrappedExampleParses ==
    /\ (ReadDone /\ temp_file = Some(Element("Chapters", SpecExample)))
           => (result = Ok /\ chapters = Some(IntroDocument))
    /\ (ReadDone /\ temp_file = Some(SpecExample))
           => (result = ErrXml /\ chapters = None)

C3_Witness ==
    /\ ReadDone
    /\ temp_file = Some(Element("Chapters", SpecExample))
    /\ chapters = Some(IntroDocument)

\* --- C4 -----------------------------------------------------------------
ExitedZero == extractor \in {"missing", "empty", "written"}

\* C4: extraction succeeds exactly when the extractor exited zero and the
\* output file exists, is not empty and parses; a non-zero exit is reported
\* as the tool's failure, and an empty as well as a missing output file as
\* "no chapters present".
C4_ExtractionClassification ==
    ReadDone =>
        /\ result = Ok <=> /\ ExitedZero
                           /\ temp_file # None
                           /\ Len(Unwrap(temp_file)) > 0
                           /\ parse_chapter_xml(Unwrap(temp_file)).ok
        /\ extractor = "nonzero" => result = ErrExtract
        /\ extractor \in {"missing", "empty"} => result = ErrNotFound

\* --- C5 -----------------------------------------------------------------
\* The elements of a chapter as the schema lays them out.
AtomLayout(a) ==
    <<Open("ChapterAtom")>>
    \o <<Open("ChapterTimeStart"), Chars(a.start_time), Close("ChapterTimeStart")>>
    \o (IF a.end_time = None THEN <<>>
        ELSE <<Open("ChapterTimeEnd"), Chars(Unwrap(a.end_time)), Close("ChapterTimeEnd")>>)
    \o <<Open("ChapterDisplay"), Open("ChapterString"), Chars(a.display.title),
         Close("ChapterString"), Close("ChapterDisplay")>>
    \o <<Close("ChapterAtom")>>

\* C5: the serialized text is the declaration, a line break, and the body
\* with the chapters in stored order, a ChapterTimeEnd element exactly for
\* the chapters that have an end_time.
C5_SerializationLayout ==
    xml_file # None =>
        LET x == Unwrap(xml_file)
            cs == ChapterList(Unwrap(chapters))
        IN  /\ x[1] = Decl
            /\ x[2] = Chars("\n")
            /\ \E pre \in {<<>>, <<Decl>>} :
                  SubSeq(x, 3, Len(x)) =
                      pre \o <<Open("Chapters"), Open("EditionEntry")>>
                      \o Flatten([j \in 1..Len(cs) |-> AtomLayout(cs[j])])
                      \o <<Close("EditionEntry"), Close("Chapters")>>

\* --- C6 -----------------------------------------------------------------
\* C6: when some ChapterAtom of the extracted XML has no ChapterTimeStart
\* the parse is an error and no document is returned; every chapter of a
\* parsed document has the start_time its element gave.
C6_MissingStartIsError ==
    (ReadDone /\ extractor = "written") =>
        /\ (\E i \in 1..Len(mkv_file.atoms) : mkv_file.atoms[i].start = None)
               => (result = ErrXml /\ chapters = None)
        /\ chapters # None =>
               /\ Len(ChapterList(Unwrap(chapters))) = Len(mkv_file.atoms)
               /\ \A i \in 1..Len(mkv_file.atoms) :
                     /\ mkv_file.atoms[i].start # None
                     /\ ChapterList(Unwrap(chapters))[i].start_time
                            = Unwrap(mkv_file.atoms[i].start)

\* Well-formed XML with the Chapters root whose second ChapterAtom lacks
\* ChapterTimeStart was parsed, and the parse failed.
C6_Witness ==
    /\ ReadDone
    /\ extractor = "written"
    /\ mkv_file.shape = "chapters_root"
    /\ Len(mkv_file.atoms) = 2
    /\ mkv_file.atoms[1].start # None
    /\ mkv_file.atoms[2].start = None
    /\ result = ErrXml

C8_DisplayRendering ==
    display # None =>
        LET lines == Unwrap(display)
            cs == ChapterList(Unwrap(chapters))
        IN  /\ Len(lines) = Len(cs)
            /\ \A i \in 1..Len(cs) :
                  lines[i] = "Start: " \o cs[i].start_time
                             \o " End: "
                             \o (IF cs[i].end_time = None THEN "???         "
                                 ELSE Unwrap(cs[i].end_time))
                             \o " Title: " \o cs[i].display.title \o "\n"
            /\ chapters = extracted

\* A document of two chapters, the first with an end_time and the second
\* without, was rendered.
C8_Witness ==
    /\ display # None
    /\ Len(ChapterList(Unwrap(chapters))) = 2
    /\ ChapterList(Unwrap(chapters))[1].end_time = Some(T1)
    /\ ChapterList(Unwrap(chapters))[2].end_time = None
    /\ Unwrap(display)[2] = "Start: 00:00:00.000000000 End: ???          Title: Intro\n"

\* --- C9 -----------------------------------------------------------------
IsError(r) == r \notin {Ok, Pending}

\* C9: in one call the extractor and the editor are each run at most once;
\* the call ends in an error when the extractor does not launch or exits
\* non-zero, its output is empty, the XML does not parse, or the editor
\* does not launch or exits non-zero; it ends in success only when the
\* editor exited zero.
C9_NoRetriesNoSilentFailure ==
    /\ extractor_runs <= 1
    /\ editor_runs <= 1
    /\ AddDone =>
          /\ result # Pending
          /\ result = Ok => editor = "zero"
          /\ extractor \in {"no_launch", "nonzero", "empty"} => IsError(result)
          /\ (extractor = "written" /\ ~parse_chapter_xml(Unwrap(temp_file)).ok)
                 => IsError(result)
          /\ editor \in {"no_launch", "nonzero"} => IsError(result)

\* A call whose extraction and write went well ended in the editor's
\* non-zero exit.
C9_Witness ==
    /\ AddDone
    /\ extractor = "written"
    /\ editor = "nonzero"
    /\ editor_runs = 1
    /\ result = ErrApply

\* --- C10 ----------------------------------------------------------------
\* The text from its root element's start tag on.
RECURSIVE FromRoot(_)
FromRoot(x) ==
    IF x = <<>> THEN <<>>
    ELSE IF Head(x).k = "open" THEN x
    ELSE FromRoot(Tail(x))

\* C10: the editor is run only after extraction gave a document, the new
\* chapter was appended and the serialized document was written; the file
\* it is handed holds the extracted chapters followed by the new one; when
\* an earlier step failed the editor is not run.
C10_CommitOnlyAfterWrite ==
    /\ editor # "not_run" =>
          /\ extractor = "written"
          /\ extracted # None
          /\ Appended
          /\ xml_file # None
          /\ LET body == parse_chapter_xml(FromRoot(Unwrap(xml_file))) IN
             /\ body.ok
             /\ ChapterList(body.val) =
                   Append(ChapterList(Unwrap(extracted)), new_chapter(timestamp, title))
    /\ (AddDone /\ (extracted = None \/ xml_file = None)) =>
          (editor = "not_run" /\ editor_runs = 0)

\* The editor exited zero on a file holding two extracted chapters and the
\* new one.
C10_Witness ==
    /\ AddDone
    /\ editor = "zero"
    /\ Len(ChapterList(Unwrap(extracted))) = 2
    /\ xml_file # None
    /\ Len(ChapterList(parse_chapter_xml(FromRoot(Unwrap(xml_file))).val)) = 3

=============================================================================
